---- MODULE Spec2Model ----
(***************************************************************************)
(* Adaptive quiz engine (src/app.py): generation client, schema            *)
(* normalizer, question assembler, option shuffler and the Flask session   *)
(* state machine driven by the /start, /question, /answer, /result routes. *)
(***************************************************************************)
EXTENDS Integers, Sequences, FiniteSets, Bags, TLC

(***************************************************************************)
(* Python values.  A parsed JSON document (and Python's None) is a tagged  *)
(* record with the same fields for every type.  Python's == on two such    *)
(* values is PyEq: a dict keeps its key order (iteration follows it) but   *)
(* two dicts are equal whatever the order of their keys.                   *)
(***************************************************************************)
JStr(s) == [t |-> "str", s |-> s, n |-> 0, a |-> <<>>, o |-> <<>>]
JNum(n) == [t |-> "num", s |-> "", n |-> n, a |-> <<>>, o |-> <<>>]
JArr(a) == [t |-> "arr", s |-> "", n |-> 0, a |-> a, o |-> <<>>]
\* an object is its items in key order: a sequence of <<key, value>> pairs
JObj(o) == [t |-> "obj", s |-> "", n |-> 0, a |-> <<>>, o |-> o]
JNull == [t |-> "null", s |-> "", n |-> 0, a |-> <<>>, o |-> <<>>]

\* x == y in Python: lists element by element, dicts key by key whatever
\* the key order, everything else by type and value
RECURSIVE PyEq(_, _)
PyEq(x, y) ==
    IF x.t # y.t THEN FALSE
    ELSE CASE x.t = "arr" ->
                /\ Len(x.a) = Len(y.a)
                /\ \A i \in 1..Len(x.a) : PyEq(x.a[i], y.a[i])
           [] x.t = "obj" ->
                /\ Len(x.o) = Len(y.o)
                /\ \A i \in 1..Len(x.o) :
                      \E j \in 1..Len(y.o) :
                          x.o[i][1] = y.o[j][1] /\ PyEq(x.o[i][2], y.o[j][2])
           [] OTHER -> x = y

\* a in b for two Python strings: a occurs in b as a substring
StrContains(a, b) ==
    \E i \in 1..(Len(b) - Len(a) + 1) : SubSeq(b, i, i + Len(a) - 1) = a

\* bool(v): None, "", 0, [] and {} are falsy
Truthy(v) ==
    CASE v.t = "null" -> FALSE
      [] v.t = "str" -> v.s # ""
      [] v.t = "num" -> v.n # 0
      [] v.t = "arr" -> v.a # <<>>
      [] OTHER -> v.o # <<>>

\* key in d, for a dict d
HasKey(d, k) == \E i \in 1..Len(d.o) : d.o[i][1] = k

\* d[k], for a dict d that has the key
Item(d, k) == d.o[CHOOSE i \in 1..Len(d.o) : d.o[i][1] = k][2]

\* d.get(k, default)
DictGet(d, k, default) == IF HasKey(d, k) THEN Item(d, k) ELSE default

\* the comprehension of Schema B without its `if k != label` filter
RECURSIVE AllValues(_, _)
AllValues(items, label) ==
    IF items = <<>> THEN <<>>
    ELSE <<Head(items)[2]>> \o AllValues(Tail(items), label)

\* [v for k, v in opts.items() if k != label]: the other values, in key order
RECURSIVE OtherValues(_, _)
OtherValues(items, label) ==
    IF items = <<>> THEN <<>>
    ELSE LET rest == OtherValues(Tail(items), label)
         IN  IF Head(items)[1] # label THEN <<Head(items)[2]>> \o rest ELSE rest

(***************************************************************************)
(* normalize_question                                                      *)
(***************************************************************************)
DefaultExplanation == JStr("No explanation provided.")

NoQuestion == [question |-> JNull, correct |-> JNull, distractors |-> JNull,
               explanation |-> JNull]

NormOk(q) == [st |-> "ok", q |-> q]
NormNone == [st |-> "none", q |-> NoQuestion]
NormRaise == [st |-> "raise", q |-> NoQuestion]

\* `label in opts` for a dict: the key must be hashable, a dict key of a
\* parsed JSON object is always a string
LabelHashable(label) == label.t \in {"str", "num", "null"}
LabelInDict(opts, label) == label.t = "str" /\ HasKey(opts, label.s)

\* `label in opts` for a list: membership by ==
LabelInList(opts, label) == \E i \in 1..Len(opts.a) : PyEq(opts.a[i], label)

\* Schema B branch: what `if label in opts: return {...}` does for each
\* type of opts.  For a string, `in` is substring containment and needs a
\* string on its left; opts[label] then raises TypeError.
SchemaB(data, question, explanation) ==
    LET opts == Item(data, "options")
        label == Item(data, "correct_answer")
    IN  CASE opts.t = "obj" ->
               IF ~LabelHashable(label) THEN NormRaise
               ELSE IF LabelInDict(opts, label)
                    THEN NormOk([question |-> question,
                                 correct |-> Item(opts, label.s),
                                 distractors |-> JArr(OtherValues(opts.o, label.s)),
                                 explanation |-> explanation])
                    ELSE NormNone
          [] opts.t = "arr" ->
               \* opts[label] or opts.items() raises when the label is found
               IF LabelInList(opts, label) THEN NormRaise ELSE NormNone
          [] opts.t = "str" ->
               IF label.t # "str" THEN NormRaise
               ELSE IF StrContains(label.s, opts.s) THEN NormRaise
                    ELSE NormNone
          [] OTHER -> NormRaise

normalize_question(data) ==
    IF data.t # "obj" THEN NormRaise
    ELSE
      LET q1 == DictGet(data, "question", JNull)
          question == IF Truthy(q1) THEN q1 ELSE DictGet(data, "prompt", JNull)
          explanation == DictGet(data, "explanation", DefaultExplanation)
      IN  IF HasKey(data, "correct_answer") /\ HasKey(data, "distractors")
          THEN NormOk([question |-> question,
                       correct |-> Item(data, "correct_answer"),
                       distractors |-> Item(data, "distractors"),
                       explanation |-> explanation])
          ELSE IF HasKey(data, "options") /\ HasKey(data, "correct_answer")
               THEN SchemaB(data, question, explanation)
               ELSE NormNone

(***************************************************************************)
(* Backend texts and responses.  A text is modelled by what the code asks  *)
(* of it: whether it is empty, whether it is only whitespace, and which    *)
(* JSON document (if any) it encodes.                                      *)
(***************************************************************************)
EmptyText == [k |-> "empty", doc |-> JNull]
BlankText == [k |-> "blank", doc |-> JNull]
GarbageText == [k |-> "garbage", doc |-> JNull]
JsonText(doc) == [k |-> "json", doc |-> doc]

\* bool(text): only "" is falsy
TextTruthy(text) == text.k # "empty"

\* text.strip(): whitespace-only text becomes ""
Strip(text) == IF text.k = "blank" THEN EmptyText ELSE text

\* json.loads(raw)
json_loads(raw) ==
    IF raw.k = "json" THEN [st |-> "ok", doc |-> raw.doc]
    ELSE [st |-> "raise", doc |-> JNull]

\* One backend invocation either raises or returns a response object.
\*   b    : "transient" (ServiceUnavailable / ResourceExhausted raised),
\*          "error" (any other exception raised), "resp" (a response)
\*   ot   : <<>> when the response has no output_text attribute, else <<text>>
\*   cand : "absent" (no or empty candidates), "noparts" (empty parts),
\*          "text" (parts[0].text is ct), "broken" (content or text is None)
Raises(kind) == [b |-> kind, ot |-> <<>>, cand |-> "absent", ct |-> EmptyText]
Response(ot, cand, ct) == [b |-> "resp", ot |-> ot, cand |-> cand, ct |-> ct]
DirectText(text) == Response(<<text>>, "absent", EmptyText)
PartsText(text) == Response(<<>>, "text", text)
NoText == Response(<<>>, "absent", EmptyText)

\* A backend script lists the behaviour of successive invocations; the
\* backend keeps behaving as in the last entry once the script is used up.
BehaviourAt(script, i) ==
    script[IF i < Len(script) THEN i ELSE Len(script)]

(***************************************************************************)
(* call_gemini                                                             *)
(***************************************************************************)
GeminiAttempts == 4
BaseDelay == 2

GeminiText(text, used, sleeps) ==
    [st |-> "text", text |-> text, used |-> used, sleeps |-> sleeps]
GeminiNone(used, sleeps) ==
    [st |-> "none", text |-> EmptyText, used |-> used, sleeps |-> sleeps]
GeminiRaise(used, sleeps) ==
    [st |-> "raise", text |-> EmptyText, used |-> used, sleeps |-> sleeps]

\* `except (ServiceUnavailable, ResourceExhausted): continue` -- neither name
\* is imported or defined in app.py, so evaluating the clause for any
\* exception raised in the try body raises NameError: nothing is caught.
ExceptClauseCatches(exc) == FALSE

\* the body of one attempt after the backend answered with beh
AttemptOutcome(beh) ==
    IF beh.b # "resp" THEN
        IF ExceptClauseCatches(beh.b) THEN "continue" ELSE "raise"
    ELSE IF beh.ot # <<>> /\ TextTruthy(beh.ot[1]) THEN "direct"
    ELSE IF beh.cand = "text" THEN "parts"
    ELSE IF beh.cand = "broken" THEN
        IF ExceptClauseCatches("error") THEN "continue" ELSE "raise"
    ELSE "continue"

\* attempts attempt, attempt+1, ... of the for loop; base backend invocations
\* were made before this call
RECURSIVE GeminiLoop(_, _, _, _, _)
GeminiLoop(script, base, attempt, delay, sleeps) ==
    IF attempt >= GeminiAttempts THEN GeminiNone(attempt, sleeps)
    ELSE
      LET slept == IF attempt > 0 THEN Append(sleeps, delay) ELSE sleeps
          delay2 == IF attempt > 0 THEN delay * 2 ELSE delay
          beh == BehaviourAt(script, base + attempt + 1)
          out == AttemptOutcome(beh)
      IN  CASE out = "raise" -> GeminiRaise(attempt + 1, slept)
            [] out = "direct" -> GeminiText(Strip(beh.ot[1]), attempt + 1, slept)
            [] out = "parts" -> GeminiText(Strip(beh.ct), attempt + 1, slept)
            [] OTHER -> GeminiLoop(script, base, attempt + 1, delay2, slept)

call_gemini(prompt, script, base) == GeminiLoop(script, base, 0, BaseDelay, <<>>)

(***************************************************************************)
(* build_prompt and generate_question                                      *)
(***************************************************************************)
\* the prompt is fixed text around the three interpolated values
build_prompt(category, difficulty, qno) ==
    [category |-> category, difficulty |-> difficulty, qno |-> qno]

GenerateAttempts == 3

FallbackQuestion ==
    [question |-> JStr("Choose the correct sentence."),
     correct |-> JStr("I am ready."),
     distractors |-> JArr(<<JStr("I am read."), JStr("I ready am."),
                            JStr("I being ready.")>>),
     explanation |-> JStr("Fallback question due to generation issues.")]

\* st: "ok" (a question is returned) or "raise" (an exception propagates);
\* calls: backend invocations made; cycles: loop iterations started
GenOk(q, fallback, calls, cycles) ==
    [st |-> "ok", q |-> q, fallback |-> fallback, calls |-> calls, cycles |-> cycles]
GenRaise(calls, cycles) ==
    [st |-> "raise", q |-> NoQuestion, fallback |-> FALSE, calls |-> calls,
     cycles |-> cycles]

\* one iteration of `for _ in range(3)`; calls backend invocations were made
\* before it.  st: "ok" (return q), "raise" (an exception propagates) or
\* "again" (continue with the next iteration)
GenerateCycle(category, difficulty, qno, script, calls) ==
    LET r == call_gemini(build_prompt(category, difficulty, qno), script, calls)
        calls2 == calls + r.used
        again == [st |-> "again", q |-> NoQuestion, calls |-> calls2]
    IN  IF r.st = "raise" THEN [st |-> "raise", q |-> NoQuestion, calls |-> calls2]
        ELSE IF r.st = "none" \/ ~TextTruthy(r.text) THEN again
        ELSE LET parsed == json_loads(r.text)
             IN  IF parsed.st = "raise" THEN again
                 ELSE LET norm == normalize_question(parsed.doc)
                      IN  CASE norm.st = "raise" ->
                                   [st |-> "raise", q |-> NoQuestion, calls |-> calls2]
                            [] norm.st = "ok" ->
                                   [st |-> "ok", q |-> norm.q, calls |-> calls2]
                            [] OTHER -> again

RECURSIVE GenerateLoop(_, _, _, _, _, _)
GenerateLoop(category, difficulty, qno, script, cycle, calls) ==
    IF cycle >= GenerateAttempts THEN GenOk(FallbackQuestion, TRUE, calls, cycle)
    ELSE
      LET c == GenerateCycle(category, difficulty, qno, script, calls)
      IN  CASE c.st = "raise" -> GenRaise(c.calls, cycle + 1)
            [] c.st = "ok" -> GenOk(c.q, FALSE, c.calls, cycle + 1)
            [] OTHER -> GenerateLoop(category, difficulty, qno, script,
                                     cycle + 1, c.calls)

generate_question(category, difficulty, qno, script) ==
    GenerateLoop(category, difficulty, qno, script, 0, 0)

(***************************************************************************)
(* shuffle_options                                                         *)
(***************************************************************************)
labels == <<"A", "B", "C", "D">>

\* the orders random.shuffle can leave a list of n elements in
ShuffleOrders(n) ==
    {p \in [1..n -> 1..n] : \A i, j \in 1..n : p[i] = p[j] => i = j}

Min(a, b) == IF a < b THEN a ELSE b
MaxSecond(a, b) == b
Max(a, b) == IF a > b THEN a ELSE b

ShuffleRaise == [st |-> "raise", option_map |-> <<>>, correct_label |-> ""]

\* shuffle_options reporting the first label whatever the shuffle did
shuffle_optionsFirstLabel(correct, distractors, perm) ==
    LET options == distractors.a \o <<correct>>
        shuffled == [i \in 1..Len(options) |-> options[perm[i]]]
        m == Min(Len(labels), Len(shuffled))
    IN  [st |-> "ok", option_map |-> [i \in 1..m |-> <<labels[i], shuffled[i]>>],
         correct_label |-> labels[1]]

\* shuffle_options without its random.shuffle call
shuffle_optionsUnshuffled(correct, distractors, perm) ==
    LET options == distractors.a \o <<correct>>
        m == Min(Len(labels), Len(options))
        option_map == [i \in 1..m |-> <<labels[i], options[i]>>]
        hits == {i \in 1..m : PyEq(option_map[i][2], correct)}
    IN  IF hits = {} THEN ShuffleRaise
        ELSE [st |-> "ok", option_map |-> option_map,
              correct_label |-> labels[CHOOSE i \in hits : \A j \in hits : i <= j]]

\* perm is the order random.shuffle produced; option_map is the dict as its
\* items in insertion order, <<label, text>>
shuffle_options(correct, distractors, perm) ==
    IF distractors.t # "arr" THEN ShuffleRaise
    ELSE
      LET options == distractors.a \o <<correct>>
          shuffled == [i \in 1..Len(options) |-> options[perm[i]]]
          m == Min(Len(labels), Len(shuffled))
          option_map == [i \in 1..m |-> <<labels[i], shuffled[i]>>]
          hits == {i \in 1..m : PyEq(option_map[i][2], correct)}
      IN  IF hits = {} THEN ShuffleRaise
          ELSE [st |-> "ok", option_map |-> option_map,
                correct_label |-> labels[CHOOSE i \in hits : \A j \in hits : i <= j]]

(***************************************************************************)
(* Session state (the Flask session of one test-taker) and the routes      *)
(***************************************************************************)
TOTAL_QUESTIONS == 10

\* generate_question invocations are counted up to this number
MaxGenCalls == 2

QUESTION_CATEGORIES ==
    <<"grammar", "vocabulary_meaning", "sentence_paraphrase", "inference",
      "error_detection">>

VARIABLES
    started,     \* "q_index" in session
    q_index,     \* session["q_index"]
    difficulty,  \* session["difficulty"]
    history,     \* session["history"]: sequence of <<difficulty, is_correct>>
    categories,  \* session["categories"]
    current_q,   \* <<>> when "current_q" is not in session, else <<record>>
    response,    \* what the request handled last returned to the caller
    inflight,    \* bag of the /question requests waiting in generate_question,
                 \* each with the session it arrived with and the number of
                 \* the loop iteration it is in
    gen_calls,   \* generate_question invocations since the last accepted answer
                 \* or start, counted up to MaxGenCalls
    prompts,     \* prompts[i]: the prompt last built for position i since the
                 \* last start
    probe,       \* a function application under test (pure-function checks)
    bank_inited,   \* app2.py: "index" in session
    bank_index,    \* app2.py: session["index"]
    bank_score,    \* app2.py: session["score"]
    bank_pending,  \* app2.py: a question was fetched and not yet answered
    bank_response  \* app2.py: what the last request returned

vars == <<started, q_index, difficulty, history, categories, current_q,
          response, inflight, gen_calls, prompts, probe,
          bank_inited, bank_index, bank_score, bank_pending, bank_response>>

\* the state of the static-bank variant (app2.py)
bank_vars == <<bank_inited, bank_index, bank_score, bank_pending, bank_response>>

session_vars == <<started, q_index, difficulty, history, categories, current_q>>

NoProbe == [fn |-> "none"]

\* round(num / den, 0) as Python's round(): to nearest, exact ties to even
RoundHalfEven(num, den) ==
    LET q == num \div den
        r == num % den
    IN  IF 2 * r < den THEN q
        ELSE IF 2 * r > den THEN q + 1
        ELSE IF q % 2 = 0 THEN q ELSE q + 1

RECURSIVE SumDifficulty(_)
SumDifficulty(h) == IF h = <<>> THEN 0 ELSE Head(h)[1] + SumDifficulty(Tail(h))

RECURSIVE CountCorrect(_)
CountCorrect(h) ==
    IF h = <<>> THEN 0 ELSE (IF Head(h)[2] THEN 1 ELSE 0) + CountCorrect(Tail(h))

\* avg_level = round(sum(d) / len(history), 1), in tenths
AvgLevel10(h) == RoundHalfEven(10 * SumDifficulty(h), Len(h))

\* accuracy = round(100 * correct / len(history), 1), in tenths of a percent
Accuracy10OverTotal(h) == RoundHalfEven(1000 * CountCorrect(h), TOTAL_QUESTIONS)
Accuracy10(h) == RoundHalfEven(1000 * CountCorrect(h), Len(h))

\* int(x): truncation toward zero of x = num / den, for num >= 0
IntTrunc(num, den) == num \div den

\* score = min(100, int(avg_level * 8 + correct * 2))
ScoreWeightTen(h) ==
    Min(100, IntTrunc(AvgLevel10(h) * 10 + CountCorrect(h) * 20, 10))
Score(h) == Min(100, IntTrunc(AvgLevel10(h) * 8 + CountCorrect(h) * 20, 10))

\* responses; route is the handler that produced the response
Redirect(route, target) == [route |-> route, kind |-> "redirect", target |-> target]
ServerError(route) == [route |-> route, kind |-> "error500"]
QuestionPage(q, qno, d) ==
    [route |-> "question", kind |-> "question", q |-> q, qno |-> qno,
     difficulty |-> d]

\* the request did not return yet: it waits in generate_question
Waiting == [route |-> "question", kind |-> "waiting"]

NoneAnswer == "<None>"

\* no prompt was built for any position
NoPrompt == [category |-> "", difficulty |-> 0, qno |-> 0]
NoPrompts == [i \in 0..(TOTAL_QUESTIONS - 1) |-> NoPrompt]

\* the positions a prompt was built for since the last start
Asked == {i \in DOMAIN prompts : prompts[i] # NoPrompt}

\* app2.py before any request: an empty session
BankInit ==
    /\ bank_inited = FALSE
    /\ bank_index = 0
    /\ bank_score = 0
    /\ bank_pending = FALSE
    /\ bank_response = [route |-> "none", kind |-> "none"]

SessionInit ==
    /\ started = FALSE
    /\ q_index = 0
    /\ difficulty = 0
    /\ history = <<>>
    /\ categories = <<>>
    /\ current_q = <<>>
    /\ response = [route |-> "none", kind |-> "none"]
    /\ inflight = EmptyBag
    /\ gen_calls = 0
    /\ prompts = NoPrompts
    /\ BankInit

\* /start without session.clear(): keys it does not assign survive
StartNoClear(samples) ==
    \E sample \in samples :
        /\ started' = TRUE
        /\ q_index' = 0
        /\ difficulty' = 4
        /\ history' = <<>>
        /\ categories' = sample
        /\ response' = Redirect("start", "question")
        /\ gen_calls' = 0
        /\ prompts' = NoPrompts
        /\ UNCHANGED <<current_q, inflight, probe, bank_vars>>

\* /start: random.sample(QUESTION_CATEGORIES, 5) yields sample.  Requests
\* waiting in generate_question keep waiting.
Start(samples) ==
    \E sample \in samples :
        /\ started' = TRUE
        /\ q_index' = 0
        /\ difficulty' = 4
        /\ history' = <<>>
        /\ categories' = sample
        /\ current_q' = <<>>
        /\ response' = Redirect("start", "question")
        /\ gen_calls' = 0
        /\ prompts' = NoPrompts
        /\ UNCHANGED <<inflight, probe, bank_vars>>

\* the category of position i: session["categories"][q_index % 5] in /question
CategoryAtBlock(cats, i) == cats[(i \div Len(QUESTION_CATEGORIES)) + 1]
CategoryAt(cats, i) == cats[(i % Len(QUESTION_CATEGORIES)) + 1]

\* The session is a signed cookie: a request works on the copy it arrived
\* with, and the caller holds the copy of the last response that set one.
\* This is the copy a /question request reads at lines 199-207; the request
\* enters the first iteration of the loop of generate_question.
Arrived == [q_index |-> q_index, difficulty |-> difficulty,
            history |-> history, categories |-> categories, cycle |-> 1]

\* what random.shuffle is given when the request in iteration cycle gets the
\* backend behaviour script: the options of the question obtained, those of
\* the fallback after the last iteration, nothing otherwise
ShuffleSize(cycle, script) ==
    LET c == GenerateCycle("", 0, 0, script, 0)
    IN  IF c.st = "ok"
        THEN (IF c.q.distractors.t = "arr" THEN Len(c.q.distractors.a) + 1 ELSE 0)
        ELSE IF c.st = "again" /\ cycle >= GenerateAttempts
        THEN Len(FallbackQuestion.distractors.a) + 1
        ELSE 0

\* One further step of a waiting /question request r: the call_gemini of its
\* current loop iteration ends, the backend having behaved as script over the
\* invocations of this iteration (the waits of one iteration change nothing
\* other requests can see, so they make one step).
\*   - nothing usable and iterations left: the loop continues, build_prompt
\*     is called again and the request waits in the next call_gemini;
\*   - an exception propagates: the request ends in a 500, it did not touch
\*     its session and sets no cookie;
\*   - a question is obtained, or the fallback after the last iteration: the
\*     options are shuffled (outcome perm), the request writes current_q into
\*     its copy of the session and answers with that copy.
FetchQuestion(r, script, perm) ==
    LET category == CategoryAt(r.categories, r.q_index)
        c == GenerateCycle(category, r.difficulty, r.q_index + 1, script, 0)
        q == IF c.st = "ok" THEN c.q ELSE FallbackQuestion
        sh == shuffle_options(q.correct, q.distractors, perm)
    IN  /\ UNCHANGED <<gen_calls, probe, bank_vars>>
        /\ IF c.st = "again" /\ r.cycle < GenerateAttempts
           THEN /\ prompts' = [prompts EXCEPT ![r.q_index] =
                                  build_prompt(category, r.difficulty, r.q_index + 1)]
                /\ inflight' = (inflight (-) SetToBag({r}))
                                   (+) SetToBag({[r EXCEPT !.cycle = r.cycle + 1]})
                /\ UNCHANGED <<session_vars, response>>
           ELSE /\ inflight' = inflight (-) SetToBag({r})
                /\ UNCHANGED prompts
                /\ IF c.st = "raise" \/ sh.st = "raise"
                   THEN /\ response' = ServerError("question")
                        /\ UNCHANGED session_vars
                   ELSE LET cq == [question |-> q.question,
                                   options |-> sh.option_map,
                                   correct_label |-> sh.correct_label,
                                   explanation |-> q.explanation]
                        IN  /\ started' = TRUE
                            /\ q_index' = r.q_index
                            /\ difficulty' = r.difficulty
                            /\ history' = r.history
                            /\ categories' = r.categories
                            /\ current_q' = <<cq>>
                            /\ response' = QuestionPage(cq, r.q_index + 1,
                                                        r.difficulty)

\* `if session["q_index"] >= TOTAL_QUESTIONS` in /question
ExhaustedOffByOne(i) == i > TOTAL_QUESTIONS
Exhausted(i) == i >= TOTAL_QUESTIONS

\* /question up to the first backend wait: the request is answered at once
\* unless a question has to be fetched; then it invokes generate_question,
\* which builds the prompt of its first iteration, and waits there (backend
\* call, time.sleep) holding its copy of the session
Question ==
    /\ UNCHANGED <<session_vars, probe, bank_vars>>
    /\ IF ~started THEN
           /\ response' = Redirect("question", "start")
           /\ UNCHANGED <<inflight, gen_calls, prompts>>
       ELSE IF Exhausted(q_index) THEN
           /\ response' = Redirect("question", "result")
           /\ UNCHANGED <<inflight, gen_calls, prompts>>
       ELSE IF current_q = <<>> THEN
           /\ gen_calls' = Min(gen_calls + 1, MaxGenCalls)
           /\ prompts' = [prompts EXCEPT ![q_index] =
                             build_prompt(CategoryAt(categories, q_index),
                                          difficulty, q_index + 1)]
           /\ inflight' = inflight (+) SetToBag({Arrived})
           /\ response' = Waiting
       ELSE
           /\ response' = QuestionPage(current_q[1], q_index + 1, difficulty)
           /\ UNCHANGED <<inflight, gen_calls, prompts>>

\* a waiting /question request goes on; scripts are the backend behaviours
\* one loop iteration may meet and orders the outcomes of random.shuffle
QuestionProceeds(scripts, orders) ==
    \E r \in BagToSet(inflight), script \in scripts :
        \E perm \in {p \in orders : DOMAIN p = 1..ShuffleSize(r.cycle, script)} :
            FetchQuestion(r, script, perm)

\* the staircase step of /answer
NextDifficultyNoCap(d, is_correct) == IF is_correct THEN d + 1 ELSE Max(1, d - 1)
NextDifficulty(d, is_correct) ==
    IF is_correct THEN Min(10, d + 1) ELSE Max(1, d - 1)

\* /answer without its `if "current_q" not in session` guard, reading the
\* pending question with a default
AnswerUnguarded(user_ans) ==
    LET label == IF current_q = <<>> THEN "" ELSE current_q[1].correct_label
        is_correct == (user_ans = label)
    IN  /\ UNCHANGED <<started, categories, inflight, prompts, probe, bank_vars>>
        /\ history' = Append(history, <<difficulty, is_correct>>)
        /\ difficulty' = NextDifficulty(difficulty, is_correct)
        /\ q_index' = q_index + 1
        /\ current_q' = <<>>
        /\ gen_calls' = 0
        /\ response' = [route |-> "answer", kind |-> "feedback",
                        correct |-> is_correct, correct_label |-> label]

\* /answer with form field answer = user_ans
Answer(user_ans) ==
    /\ UNCHANGED <<started, categories, inflight, prompts, probe, bank_vars>>
    /\ IF current_q = <<>> THEN
           /\ response' = Redirect("answer", "question")
           /\ UNCHANGED <<q_index, difficulty, history, current_q, gen_calls>>
       ELSE
           LET q == current_q[1]
               is_correct == (user_ans = q.correct_label)
           IN  /\ history' = Append(history, <<difficulty, is_correct>>)
               /\ difficulty' = NextDifficulty(difficulty, is_correct)
               /\ q_index' = q_index + 1
               /\ current_q' = <<>>
               /\ gen_calls' = 0
               /\ response' = [route |-> "answer", kind |-> "feedback",
                               correct |-> is_correct,
                               correct_label |-> q.correct_label,
                               explanation |-> q.explanation]

\* /result
Result ==
    /\ UNCHANGED <<session_vars, inflight, gen_calls, prompts, probe, bank_vars>>
    /\ IF history = <<>> THEN response' = Redirect("result", "start")
       ELSE response' = [route |-> "result", kind |-> "result",
                         avg_level |-> AvgLevel10(history),
                         accuracy |-> Accuracy10(history),
                         score |-> Score(history)]

(***************************************************************************)
(* Inputs of the session specification                                     *)
(***************************************************************************)
T1 == JStr("went")
T2 == JStr("goed")
T3 == JStr("gone")
T4 == JStr("going")
T5 == JStr("goes")

Field(k, v) == <<k, v>>

\* a Schema A document and a Schema B document as the prompt describes them
GoodA ==
    JObj(<<Field("question", JStr("Yesterday she ___ home.")),
           Field("correct_answer", T1),
           Field("distractors", JArr(<<T2, T3, T4>>)),
           Field("explanation", JStr("past tense"))>>)

GoodB ==
    JObj(<<Field("question", JStr("Pick the past tense.")),
           Field("options", JObj(<<Field("A", T2), Field("B", T1),
                                   Field("C", T3), Field("D", T4)>>)),
           Field("correct_answer", JStr("B")),
           Field("explanation", JStr("irregular verb"))>>)

\* backend behaviours over one loop iteration of a /question request
SessionScripts ==
    { <<Raises("transient")>>,
      <<NoText>>,
      <<DirectText(JsonText(GoodA))>>,
      <<DirectText(GarbageText)>>,
      <<NoText, PartsText(JsonText(GoodA))>>,
      <<PartsText(JsonText(JArr(<<T1>>)))>> }

\* outcome of random.sample in /start; the category only reaches the prompt
SessionSamples ==
    { <<"inference", "grammar", "error_detection", "vocabulary_meaning",
        "sentence_paraphrase">> }

\* outcomes of random.shuffle: the rotations, which put the correct text
\* under each label in turn
Rotations(n) ==
    {p \in ShuffleOrders(n) : \A i \in 1..n : p[i] % n = (p[1] + i - 1) % n}

\* most options one question of the session scripts carries
MaxOptions == 5
SessionOrders == UNION {Rotations(n) : n \in 0..MaxOptions}

\* values of the submitted form field
AnswerInputs == {"A", "B", "C", "D", NoneAnswer}

Init == SessionInit /\ probe = NoProbe

\* The caller of Spec keeps to one operation per session at a time: it
\* sends a request only when none is waiting.
Next ==
    \/ inflight = EmptyBag /\ Start(SessionSamples)
    \/ inflight = EmptyBag /\ Question
    \/ QuestionProceeds(SessionScripts, SessionOrders)
    \/ inflight = EmptyBag /\ \E user_ans \in AnswerInputs : Answer(user_ans)
    \/ inflight = EmptyBag /\ Result

Spec == Init /\ [][Next]_vars

TypeOK ==
    /\ started \in BOOLEAN
    /\ q_index \in 0..TOTAL_QUESTIONS
    /\ Len(current_q) <= 1

\* A caller that does not keep to one operation at a time (spec section 5
\* leaves the outcome to it): requests of one session overlap, up to
\* MaxInFlight of them waiting in generate_question at once.
MaxInFlight == 2

RaceScripts ==
    { <<DirectText(JsonText(GoodA))>>, <<PartsText(JsonText(GoodB))>>,
      <<DirectText(GarbageText)>> }

RaceOrders == { [i \in 1..n |-> i] : n \in {0, 4} }

NextRace ==
    \/ Start(SessionSamples)
    \/ BagCardinality(inflight) < MaxInFlight /\ Question
    \/ QuestionProceeds(RaceScripts, RaceOrders)
    \/ Answer("D")
    \/ Result

SpecRace == Init /\ [][NextRace]_vars

\* two overlapping /question requests for position 0 were both answered,
\* the second with another question than the first
RaceTwoQuestions ==
    /\ q_index = 0 /\ history = <<>>
    /\ gen_calls = 2 /\ inflight = EmptyBag
    /\ response.kind = "question"
    /\ response.q.question = JStr("Pick the past tense.")

\* a request that was waiting during a restart went into its next loop
\* iteration afterwards: the prompt of its position was built again
RaceRebuiltPrompt ==
    /\ started /\ q_index = 0 /\ history = <<>> /\ current_q = <<>>
    /\ gen_calls = 0 /\ Asked = {0}
    /\ response.route = "start"
    /\ \E r \in BagToSet(inflight) : r.cycle = 2

\* a /question response that arrived after a restart put the session of
\* before the restart back
RaceStaleSession ==
    /\ q_index = 3 /\ Len(history) = 3 /\ difficulty = 7
    /\ current_q # <<>>
    /\ gen_calls = 0 /\ Asked = {}
    /\ response.kind = "question" /\ response.qno = 4

(***************************************************************************)
(* Claims about the session state machine, checked under Spec              *)
(***************************************************************************)
Abs(x) == IF x < 0 THEN -x ELSE x

\* C1: every accepted submit-answer at difficulty d appends <<d, correct>> to
\* history and moves difficulty to d+1 (correct, d<10), 10 (correct, d=10),
\* d-1 (incorrect, d>1) or 1 (incorrect, d=1).
C1_Staircase ==
    [][ (response'.route = "answer" /\ current_q # <<>>) =>
          /\ response'.kind = "feedback"
          /\ history' = Append(history, <<difficulty, response'.correct>>)
          /\ difficulty' =
               IF response'.correct
               THEN (IF difficulty < 10 THEN difficulty + 1 ELSE 10)
               ELSE (IF difficulty > 1 THEN difficulty - 1 ELSE 1) ]_vars

\* C1 witness: a correct answer was accepted at difficulty 10 and the
\* difficulty stayed at 10.
C1_Witness ==
    /\ response.route = "answer" /\ response.kind = "feedback"
    /\ history # <<>> /\ history[Len(history)] = <<10, TRUE>>
    /\ difficulty = 10

\* C2: once a question was fetched for a position, every further /question
\* before the next submit returns that same question, and generate_question
\* is invoked exactly once for the position.
C2_FetchOnce ==
    /\ [](gen_calls <= 1 /\ (current_q # <<>> => gen_calls = 1))
    /\ [][ (response'.route = "question" /\ current_q # <<>>) =>
             /\ current_q' = current_q
             /\ response'.kind = "question" /\ response'.q = current_q[1]
             /\ gen_calls' = gen_calls ]_vars

\* C3: a submit-answer with no question pending is rejected: history,
\* difficulty, position and pending state are unchanged.
C3_SubmitWithoutPending ==
    [][ (response'.route = "answer" /\ current_q = <<>>) =>
          /\ response'.kind = "redirect"
          /\ UNCHANGED session_vars ]_vars

\* C3 witness: a second submit arrived after an accepted one and was
\* rejected with the session as the first submit left it.
C3_Witness ==
    /\ response.route = "answer" /\ response.kind = "redirect"
    /\ current_q = <<>>
    /\ Len(history) = 1 /\ q_index = 1

\* C7: the result reports the mean difficulty rounded to one decimal and
\* score = min(100, round(avg * 8 + correct * 2)), round to nearest integer.
C7_ScoreRounded ==
    response.kind = "result" =>
        LET a == response.avg_level
            c == CountCorrect(history)
        IN  /\ 2 * Abs(10 * SumDifficulty(history) - a * Len(history))
                 <= Len(history)
            /\ response.score = Min(100, (2 * (8 * a + 20 * c) + 10) \div 20)

\* C8 as stated: accuracy = correctCount / N with N = TOTAL_QUESTIONS in
\* every state where /result produces a result.
C8_AccuracyOverTotal ==
    response.kind = "result" =>
        response.accuracy * TOTAL_QUESTIONS = 1000 * CountCorrect(history)

\* C8 amended: accuracy is the percentage correctCount / len(history),
\* rounded to one decimal; it is correctCount / N once position reached N.
C8_AccuracyOverAnswered ==
    response.kind = "result" =>
        /\ 2 * Abs(1000 * CountCorrect(history) - response.accuracy * Len(history))
             <= Len(history)
        /\ q_index = TOTAL_QUESTIONS =>
             response.accuracy * TOTAL_QUESTIONS = 1000 * CountCorrect(history)

\* C8 witness: a result taken after 3 answers, 2 of them correct (66.7%).
C8_Witness ==
    /\ response.kind = "result"
    /\ Len(history) = 3 /\ CountCorrect(history) = 2
    /\ response.accuracy = 667

\* C9: /question at position >= N redirects to the result; it does not
\* invoke generate_question (no invocation is counted, no prompt is built,
\* no request starts waiting for the backend) and leaves the session
\* unchanged, so no pending question appears.
C9_Exhausted ==
    [][ (response'.route = "question" /\ started /\ q_index >= TOTAL_QUESTIONS) =>
          /\ response' = Redirect("question", "result")
          /\ UNCHANGED <<session_vars, gen_calls, prompts, inflight>> ]_vars

\* C9 witness: all N questions are answered and /question was refused.
C9_Witness ==
    /\ q_index = TOTAL_QUESTIONS /\ Len(history) = TOTAL_QUESTIONS
    /\ response = Redirect("question", "result")
    /\ current_q = <<>>

(***************************************************************************)
(* Generation pipeline as pure functions: SpecGen draws a backend script   *)
(* and applies call_gemini or generate_question to it.                     *)
(***************************************************************************)
\* longest backend script drawn
MaxScriptLen == 2

\* documents the backend may send: both schemas, and one of every JSON type
GenDocs ==
    { GoodA, GoodB, JArr(<<T1>>), JStr("went"), JNum(7), JNull, JObj(<<>>),
      JObj(<<Field("question", JStr("Which one?"))>>) }

GenTexts == {EmptyText, BlankText, GarbageText} \cup {JsonText(d) : d \in GenDocs}

Behaviours ==
    {Raises("transient"), Raises("error"), NoText,
     Response(<<>>, "noparts", EmptyText), Response(<<>>, "broken", EmptyText)}
    \cup {DirectText(t) : t \in GenTexts}
    \cup {PartsText(t) : t \in GenTexts}
    \cup {Response(<<EmptyText>>, "text", JsonText(GoodA))}

GenScripts == UNION {[1..n -> Behaviours] : n \in 1..MaxScriptLen}

InitGen ==
    /\ SessionInit
    /\ probe \in {[fn |-> "input", script |-> sc] : sc \in GenScripts}

CallGemini ==
    /\ probe.fn = "input"
    /\ probe' = [fn |-> "call_gemini", script |-> probe.script,
                 ret |-> call_gemini(build_prompt("grammar", 4, 1), probe.script, 0)]
    /\ UNCHANGED <<session_vars, response, inflight, gen_calls, prompts, bank_vars>>

GenerateQuestion ==
    /\ probe.fn = "input"
    /\ \E category \in {"grammar", "inference"}, d \in {1, 10} :
         probe' = [fn |-> "generate_question", script |-> probe.script,
                   ret |-> generate_question(category, d, 1, probe.script)]
    /\ UNCHANGED <<session_vars, response, inflight, gen_calls, prompts, bank_vars>>

NextGen == CallGemini \/ GenerateQuestion

SpecGen == InitGen /\ [][NextGen]_vars

\* every backend invocation of the script raises a transient error
AllTransient(script) == \A i \in 1..Len(script) : script[i].b = "transient"

\* no backend invocation of the script raises, and every response can be read
NoBackendError(script) ==
    \A i \in 1..Len(script) : script[i].b = "resp" /\ script[i].cand # "broken"

\* text that is not JSON, or JSON that matches neither schema
Malformed(text) ==
    \/ text.k = "garbage"
    \/ text.k = "json" /\
         ~(text.doc.t = "obj" /\ HasKey(text.doc, "correct_answer")
           /\ (HasKey(text.doc, "distractors") \/ HasKey(text.doc, "options")))

\* C4: when every backend invocation raises a transient error, call_gemini
\* makes its 4 attempts and reports failure, and generate_question returns
\* the fallback question without raising.
C4_TransientFallback ==
    (probe.fn # "input" /\ AllTransient(probe.script)) =>
        IF probe.fn = "call_gemini"
        THEN probe.ret.st = "none" /\ probe.ret.used = GeminiAttempts
        ELSE probe.ret.st = "ok" /\ probe.ret.q = FallbackQuestion

\* C5: call_gemini never propagates an exception, whatever the backend does
\* on each attempt.
C5_GeminiNeverRaises ==
    probe.fn = "call_gemini" => probe.ret.st # "raise"

\* C6: with a backend that answers every invocation, a malformed response is
\* never surfaced: generate_question returns a question, and a malformed
\* first response makes it run a further cycle.
C6_MalformedRegenerates ==
    (probe.fn = "generate_question" /\ NoBackendError(probe.script)) =>
        /\ probe.ret.st = "ok"
        /\ (probe.script[1].ot # <<>> /\ Malformed(probe.script[1].ot[1]))
             => probe.ret.cycles >= 2

(***************************************************************************)
(* Schema normalizer as a pure function: SpecNorm draws a parsed document  *)
(* and applies normalize_question to it.                                   *)
(***************************************************************************)
TextPool == {T1, T2, T3, T4, T5}

\* 4 pairwise distinct answer texts, in order
DistinctTexts == {f \in [1..4 -> TextPool] : \A i, j \in 1..4 : f[i] = f[j] => i = j}

\* how the document carries its question text and explanation
QuestionFields ==
    { <<Field("question", JStr("Which one?"))>>,
      <<Field("prompt", JStr("Which one?"))>>,
      <<Field("question", JStr("")), Field("prompt", JStr("Which one?"))>>,
      <<>> }
ExplanationFields == { <<Field("explanation", JStr("because"))>>, <<>> }

\* orders in which the options object may list its keys
KeyOrders == { <<"A", "B", "C", "D">>, <<"C", "A", "D", "B">> }

ShapeA(head, f, tail) ==
    JObj(head \o <<Field("correct_answer", f[4]),
                   Field("distractors", JArr(<<f[1], f[2], f[3]>>))>> \o tail)

ShapeB(head, keys, f, labelField, label, tail) ==
    JObj(head \o <<Field("options", JObj([i \in 1..4 |-> Field(keys[i], f[i])])),
                   Field(labelField, JStr(label))>> \o tail)

ShapeAInputs ==
    {ShapeA(h, f, e) : h \in QuestionFields, f \in DistinctTexts,
                       e \in ExplanationFields}

ShapeBInputs ==
    {ShapeB(h, k, f, "correct_answer", l, <<>>) :
        h \in QuestionFields, k \in KeyOrders, f \in DistinctTexts,
        l \in {"A", "B", "C", "D"}}

\* documents that match neither schema
Q1 == <<Field("question", JStr("Which one?"))>>

OtherInputs ==
    {ShapeB(<<>>, k, f, "correct_label", l, <<>>) :
        k \in KeyOrders, f \in DistinctTexts, l \in {"A", "D"}}
    \cup {ShapeB(<<>>, <<"A", "B", "C", "D">>, f, "correct_answer", "E", <<>>) :
            f \in DistinctTexts}
    \cup GenDocs
    \cup {JObj(Q1 \o <<Field("options", JStr("went")), Field("correct_answer", l)>>) :
            l \in {JStr("en"), JStr("w"), JStr("went"), JStr(""), JStr("wt"),
                   JStr("wentx"), JNum(1)}}
    \cup {JObj(Q1 \o <<Field("options",
                          JArr(<<JObj(<<Field("a", JNum(1)), Field("b", JNum(2))>>)>>)),
                       Field("correct_answer", l)>>) :
            l \in {JObj(<<Field("b", JNum(2)), Field("a", JNum(1))>>),
                   JObj(<<Field("a", JNum(1))>>), T1}}

\* documents of either shape with a required field missing, empty or of
\* the wrong size
MalformedInputs ==
    { JObj(Q1 \o <<Field("correct_answer", T1), Field("distractors", JArr(<<>>))>>),
      JObj(Q1 \o <<Field("correct_answer", T1),
                   Field("distractors", JArr(<<T2, T3>>))>>),
      JObj(Q1 \o <<Field("correct_answer", T1),
                   Field("distractors", JArr(<<T2, T3, T4, T5>>))>>),
      JObj(Q1 \o <<Field("correct_answer", JStr("")),
                   Field("distractors", JArr(<<T2, T3, T4>>))>>),
      JObj(Q1 \o <<Field("correct_answer", T1),
                   Field("distractors", JArr(<<T2, JStr(""), T4>>))>>),
      JObj(Q1 \o <<Field("correct_answer", T1), Field("distractors", JNull)>>),
      JObj(<<Field("correct_answer", T1),
             Field("distractors", JArr(<<T2, T3, T4>>))>>),
      JObj(<<Field("question", JStr("")), Field("correct_answer", T1),
             Field("distractors", JArr(<<T2, T3, T4>>))>>),
      JObj(Q1 \o <<Field("options", JObj(<<Field("A", T1), Field("B", T2),
                                           Field("C", T3)>>)),
                   Field("correct_answer", JStr("A"))>>),
      JObj(Q1 \o <<Field("options", JObj(<<Field("A", T1), Field("B", T2),
                                           Field("C", T3), Field("D", T4),
                                           Field("E", T5)>>)),
                   Field("correct_answer", JStr("B"))>>),
      JObj(Q1 \o <<Field("options", JObj(<<>>)),
                   Field("correct_answer", JStr("A"))>>),
      JObj(Q1 \o <<Field("options", JArr(<<T1, T2, T3, T4>>)),
                   Field("correct_answer", T2)>>),
      JObj(Q1 \o <<Field("options", JNull), Field("correct_answer", JStr("A"))>>),
      JObj(<<Field("options", JObj(<<Field("A", T1), Field("B", T2),
                                     Field("C", T3), Field("D", T4)>>)),
             Field("correct_answer", JStr("C"))>>) }

NormInputs == ShapeAInputs \cup ShapeBInputs \cup OtherInputs \cup MalformedInputs

InitNorm ==
    /\ SessionInit
    /\ probe \in {[fn |-> "input", data |-> d] : d \in NormInputs}

\* q = normalize_question(data); arg is the document passed in and data the
\* document as the call left it (the function stores nothing into it)
NormalizeQuestion ==
    /\ probe.fn = "input"
    /\ probe' = [fn |-> "normalize_question", arg |-> probe.data,
                 data |-> probe.data, ret |-> normalize_question(probe.data)]
    /\ UNCHANGED <<session_vars, response, inflight, gen_calls, prompts, bank_vars>>

NextNorm == NormalizeQuestion

SpecNorm == InitNorm /\ [][NextNorm]_vars

Range(seq) == {seq[i] : i \in 1..Len(seq)}

\* the answer texts of a normalized question
AnswerTexts(q) == {q.correct} \cup Range(q.distractors.a)

\* C10: a well-formed Shape-A document normalizes to its correct_answer and
\* its distractors verbatim; a well-formed Shape-B document to the option
\* the label names and the other 3 option texts in key order; either way
\* the result has exactly 4 distinct answer texts and the document is left
\* as it was.
C10_NormalizeWellFormed ==
    (probe.fn = "normalize_question"
       /\ probe.arg \in ShapeAInputs \cup ShapeBInputs) =>
        /\ probe.ret.st = "ok"
        /\ probe.data = probe.arg
        /\ probe.ret.q.distractors.t = "arr"
        /\ Len(probe.ret.q.distractors.a) = 3
        /\ Cardinality(AnswerTexts(probe.ret.q)) = 4
        /\ IF probe.arg \in ShapeAInputs
           THEN /\ probe.ret.q.correct = Item(probe.arg, "correct_answer")
                /\ probe.ret.q.distractors = Item(probe.arg, "distractors")
           ELSE LET items == Item(probe.arg, "options").o
                    label == Item(probe.arg, "correct_answer").s
                IN  \E at \in 1..4 :
                      /\ items[at][1] = label
                      /\ probe.ret.q.correct = items[at][2]
                      /\ probe.ret.q.distractors.a =
                           [i \in 1..3 |-> items[IF i < at THEN i ELSE i + 1][2]]

\* C10 witness: a Shape-B document whose correct label is neither the first
\* nor the last key was normalized.
C10_Witness ==
    /\ probe.fn = "normalize_question"
    /\ probe.arg \in ShapeBInputs
    /\ probe.ret.st = "ok"
    /\ Item(probe.arg, "options").o[2][1] = Item(probe.arg, "correct_answer").s

\* a non-empty string
IsText(v) == v.t = "str" /\ v.s # ""

\* the question text normalize_question would report is a non-empty string
HasQuestionText(data) ==
    \/ HasKey(data, "question") /\ IsText(Item(data, "question"))
    \/ HasKey(data, "prompt") /\ IsText(Item(data, "prompt"))

\* Shape A with every required field present and non-empty
CompleteShapeA(data) ==
    /\ HasKey(data, "correct_answer") /\ IsText(Item(data, "correct_answer"))
    /\ HasKey(data, "distractors")
    /\ Item(data, "distractors").t = "arr"
    /\ Len(Item(data, "distractors").a) = 3
    /\ \A i \in 1..3 : IsText(Item(data, "distractors").a[i])

\* Shape B with 4 options and a label that names one of them
CompleteShapeB(data) ==
    /\ HasKey(data, "options") /\ HasKey(data, "correct_answer")
    /\ Item(data, "options").t = "obj"
    /\ Len(Item(data, "options").o) = 4
    /\ \A i \in 1..4 : IsText(Item(data, "options").o[i][2])
    /\ Item(data, "correct_answer").t = "str"
    /\ HasKey(Item(data, "options"), Item(data, "correct_answer").s)

Complete(data) ==
    /\ data.t = "obj"
    /\ HasQuestionText(data)
    /\ CompleteShapeA(data) \/ CompleteShapeB(data)

\* C11: normalize_question reports unrecognized-schema for every JSON object
\* in which neither shape matches or a required field is missing or empty,
\* so a question it returns always has 3 distractors besides its correct
\* answer.
C11_RejectsIncomplete ==
    (probe.fn = "normalize_question" /\ probe.arg.t = "obj") =>
        /\ ~Complete(probe.arg) => probe.ret.st = "none"
        /\ probe.ret.st = "ok" =>
             /\ probe.ret.q.distractors.t = "arr"
             /\ Len(probe.ret.q.distractors.a) = 3

(***************************************************************************)
(* Option shuffler as a pure function: SpecShuffle draws the texts and one *)
(* outcome of random.shuffle and applies shuffle_options.                  *)
(***************************************************************************)
\* a correct text with its distractors: pairwise distinct, or with a
\* repeated text, or with one distractor too many
ShuffleInputs ==
    {[correct |-> f[4], distractors |-> JArr(<<f[1], f[2], f[3]>>)] :
        f \in DistinctTexts}
    \cup {[correct |-> T1, distractors |-> JArr(<<T2, T1, T3>>)],
          [correct |-> T1, distractors |-> JArr(<<T2, T2, T3>>)],
          [correct |-> T1, distractors |-> JArr(<<T2, T3, T4, T5>>)],
          [correct |-> JObj(<<Field("b", JNum(2)), Field("a", JNum(1))>>),
           distractors |-> JArr(<<JObj(<<Field("a", JNum(1)),
                                         Field("b", JNum(2))>>), T2, T3>>)]}

InitShuffle ==
    /\ SessionInit
    /\ probe \in {[fn |-> "input", correct |-> x.correct,
                   distractors |-> x.distractors] : x \in ShuffleInputs}

ShuffleOptions ==
    /\ probe.fn = "input"
    /\ \E perm \in ShuffleOrders(Len(probe.distractors.a) + 1) :
         probe' = [fn |-> "shuffle_options", correct |-> probe.correct,
                   distractors |-> probe.distractors, perm |-> perm,
                   ret |-> shuffle_options(probe.correct, probe.distractors, perm)]
    /\ UNCHANGED <<session_vars, response, inflight, gen_calls, prompts, bank_vars>>

NextShuffle == ShuffleOptions

SpecShuffle == InitShuffle /\ [][NextShuffle]_vars

\* 3 distractors, pairwise distinct and distinct from the correct text
FourDistinct(correct, distractors) ==
    LET texts == distractors.a \o <<correct>>
    IN  /\ Len(distractors.a) = 3
        /\ \A i, j \in 1..4 : PyEq(texts[i], texts[j]) => i = j

\* C12: for 4 pairwise distinct texts and every order random.shuffle can
\* produce, the returned mapping is a bijection from the labels A, B, C, D
\* onto the 4 texts and the returned label is the one label whose text is
\* the correct text.
C12_ShuffleBijection ==
    (probe.fn = "shuffle_options"
       /\ FourDistinct(probe.correct, probe.distractors)) =>
        LET map == probe.ret.option_map
        IN  /\ probe.ret.st = "ok"
            /\ Len(map) = 4
            /\ \A i \in 1..4 : map[i][1] = labels[i]
            /\ {map[i][2] : i \in 1..4}
                 = {probe.correct} \cup Range(probe.distractors.a)
            /\ \A i \in 1..4 :
                 (map[i][2] = probe.correct) <=> (map[i][1] = probe.ret.correct_label)

\* C12 witness: a shuffle that moved the correct text from the last place
\* to label B.
C12_Witness ==
    /\ probe.fn = "shuffle_options"
    /\ FourDistinct(probe.correct, probe.distractors)
    /\ probe.ret.st = "ok"
    /\ probe.ret.correct_label = "B"
    /\ probe.ret.option_map[2][2] = probe.correct

\* the orders of a fair shuffle that put the correct text under label l
OrdersGiving(correct, distractors, l) ==
    {p \in ShuffleOrders(4) :
        shuffle_options(correct, distractors, p).correct_label = l}

\* C13: with a fair random source every order of the 4 texts is equally
\* likely, and each of the 4 labels receives the correct text under exactly
\* a quarter of the orders.
C13_NoPositionalBias ==
    (probe.fn = "shuffle_options"
       /\ FourDistinct(probe.correct, probe.distractors)) =>
        \A i \in 1..4 :
            4 * Cardinality(OrdersGiving(probe.correct, probe.distractors, labels[i]))
              = Cardinality(ShuffleOrders(4))

\* C13 witness: a shuffle of 4 distinct texts that left the correct text
\* under label A, one of the 6 orders that do.
C13_Witness ==
    /\ probe.fn = "shuffle_options"
    /\ FourDistinct(probe.correct, probe.distractors)
    /\ probe.ret.correct_label = "A"
    /\ Cardinality(OrdersGiving(probe.correct, probe.distractors, "A")) = 6

(***************************************************************************)
(* The static-question-bank variant (src/app2.py)                          *)
(***************************************************************************)
Opts(a, b, c, d) == << <<"A", a>>, <<"B", b>>, <<"C", c>>, <<"D", d>> >>

QUESTIONS == <<
    [question |-> "Choose the correct sentence.",
     options |-> Opts("She don't like coffee.", "She doesn't like coffee.",
                      "She didn't likes coffee.", "She don't likes coffee."),
     correct |-> "B"],
    [question |-> "What does 'meticulous' most nearly mean?",
     options |-> Opts("Careless", "Quick", "Very careful", "Aggressive"),
     correct |-> "C"],
    [question |-> "Identify the correct usage.",
     options |-> Opts("He is senior than me.", "He is senior to me.",
                      "He is senior from me.", "He is senior over me."),
     correct |-> "B"],
    [question |-> "Choose the best replacement: 'She spoke ______.'",
     options |-> Opts("confident", "confidence", "confidently", "confidencing"),
     correct |-> "C"],
    [question |-> "Which sentence is grammatically correct?",
     options |-> Opts("Neither of the answers are correct.",
                      "Neither of the answers is correct.",
                      "Neither answers are correct.",
                      "Neither answer were correct."),
     correct |-> "B"] >>

\* init_session(): the value of a session key after the call
init_session(cur) == IF bank_inited THEN cur ELSE 0

\* GET /
Home ==
    /\ bank_inited' = TRUE
    /\ bank_index' = init_session(bank_index)
    /\ bank_score' = init_session(bank_score)
    /\ bank_response' = [route |-> "home", kind |-> "page"]
    /\ UNCHANGED <<bank_pending, session_vars, response, inflight, gen_calls,
                   prompts, probe>>

\* GET /question
get_question ==
    LET idx == init_session(bank_index)
    IN  /\ bank_inited' = TRUE
        /\ bank_index' = idx
        /\ bank_score' = init_session(bank_score)
        /\ IF idx >= Len(QUESTIONS)
           THEN /\ bank_response' = [route |-> "question", kind |-> "json",
                                     done |-> TRUE]
                /\ UNCHANGED bank_pending
           ELSE /\ bank_response' = [route |-> "question", kind |-> "json",
                                     done |-> FALSE,
                                     question |-> QUESTIONS[idx + 1].question,
                                     options |-> QUESTIONS[idx + 1].options,
                                     number |-> idx + 1,
                                     total |-> Len(QUESTIONS)]
                /\ bank_pending' = TRUE
        /\ UNCHANGED <<session_vars, response, inflight, gen_calls, prompts, probe>>

\* POST /answer whose JSON body parses to data.  data.get raises
\* AttributeError unless data is an object, and QUESTIONS[idx] raises
\* IndexError past the end of the bank; either way the request fails after
\* init_session() and changes nothing else.
submit_answer(data) ==
    LET idx == init_session(bank_index)
        score == init_session(bank_score)
    IN  /\ bank_inited' = TRUE
        /\ IF data.t # "obj" \/ idx >= Len(QUESTIONS)
           THEN /\ bank_response' = [route |-> "answer", kind |-> "error"]
                /\ bank_index' = idx
                /\ bank_score' = score
                /\ UNCHANGED bank_pending
           ELSE /\ bank_score' =
                     IF PyEq(DictGet(data, "answer", JNull),
                             JStr(QUESTIONS[idx + 1].correct))
                     THEN score + 1 ELSE score
                /\ bank_index' = idx + 1
                /\ bank_pending' = FALSE
                /\ bank_response' = [route |-> "answer", kind |-> "json",
                                     ok |-> TRUE]
        /\ UNCHANGED <<session_vars, response, inflight, gen_calls, prompts, probe>>

\* GET /result
BankResult ==
    /\ bank_inited' = TRUE
    /\ bank_index' = init_session(bank_index)
    /\ bank_score' = init_session(bank_score)
    /\ bank_response' = [route |-> "result", kind |-> "json",
                         score |-> init_session(bank_score),
                         total |-> Len(QUESTIONS)]
    /\ UNCHANGED <<bank_pending, session_vars, response, inflight, gen_calls,
                   prompts, probe>>

\* request bodies: an answer A..D, an object without "answer", and bodies
\* that are not objects
BankBodies ==
    {JObj(<<Field("answer", JStr(l))>>) : l \in {"A", "B", "C", "D"}}
    \cup {JObj(<<>>), JObj(<<Field("answer", JNull)>>), JArr(<<>>), JNull, JStr("B")}

InitBank == SessionInit /\ probe = NoProbe

NextBank ==
    \/ Home
    \/ get_question
    \/ \E data \in BankBodies : submit_answer(data)
    \/ BankResult

SpecBank == InitBank /\ [][NextBank]_vars

\* C14: a submit-answer made while no fetched question awaits its answer (a
\* second submit for the same fetched question, no fetch in between) leaves
\* the session index and score as the first submit left them.
C14_SubmitTwice ==
    [][ (bank_response'.route = "answer" /\ bank_index > 0 /\ ~bank_pending) =>
          /\ bank_index' = bank_index
          /\ bank_score' = bank_score ]_vars

(***************************************************************************)
(* Retry and regeneration policy, checked under SpecGen                    *)
(***************************************************************************)
\* the response carries non-empty text, in the direct field or else in the
\* first content part
YieldsText(beh) ==
    /\ beh.b = "resp"
    /\ \/ beh.ot # <<>> /\ TextTruthy(beh.ot[1])
       \/ beh.cand = "text" /\ TextTruthy(beh.ct)

\* sleeps before attempts 2..n: base, 2*base, 4*base, ...
BackoffSleeps(n) == [k \in 1..(n - 1) |-> BaseDelay * 2^(k - 1)]

\* C15: on a backend that answers every invocation, call_gemini makes at most
\* 4 attempts, stops at the first attempt whose response carries non-empty
\* text (reporting failure after the 4th when none does), and sleeps 2, 4, 8
\* before attempts 2, 3, 4 and not before attempt 1.
C15_RetryPolicy ==
    (probe.fn = "call_gemini" /\ NoBackendError(probe.script)) =>
        LET ys == {k \in 1..GeminiAttempts :
                     YieldsText(BehaviourAt(probe.script, k))}
        IN  /\ probe.ret.used <= GeminiAttempts
            /\ probe.ret.sleeps = BackoffSleeps(probe.ret.used)
            /\ IF ys # {}
               THEN /\ probe.ret.st = "text"
                    /\ probe.ret.used = CHOOSE k \in ys : \A j \in ys : k <= j
               ELSE /\ probe.ret.st = "none"
                    /\ probe.ret.used = GeminiAttempts

\* backend invocations made before assemble cycle c (c = 0, 1, 2) starts
RECURSIVE CycleBase(_, _)
CycleBase(script, c) ==
    IF c = 0 THEN 0
    ELSE LET b == CycleBase(script, c - 1)
         IN  b + call_gemini(build_prompt("grammar", 4, 1), script, b).used

\* <<q>> when cycle c obtains text that parses and normalizes to q, else <<>>
CycleQuestion(script, c) ==
    LET r == call_gemini(build_prompt("grammar", 4, 1), script, CycleBase(script, c))
        parsed == json_loads(r.text)
    IN  IF r.st = "text" /\ parsed.st = "ok"
           /\ normalize_question(parsed.doc).st = "ok"
        THEN <<normalize_question(parsed.doc).q>>
        ELSE <<>>

\* C16: generate_question returns for every backend behaviour, within 3
\* cycles and 12 backend invocations; it returns the question of the first
\* cycle that parses and normalizes and runs no cycle after it; it returns
\* the constant fallback (3 distinct distractors) only when all 3 cycles fail.
C16_BoundedRegeneration ==
    probe.fn = "generate_question" =>
        LET good == {c \in 0..(GenerateAttempts - 1) :
                       CycleQuestion(probe.script, c) # <<>>}
            d == FallbackQuestion.distractors.a
        IN  /\ probe.ret.st = "ok"
            /\ probe.ret.cycles <= GenerateAttempts
            /\ probe.ret.calls <= GenerateAttempts * GeminiAttempts
            /\ IF good # {}
               THEN LET c == CHOOSE x \in good : \A y \in good : x <= y
                    IN  /\ probe.ret.q = CycleQuestion(probe.script, c)[1]
                        /\ probe.ret.cycles = c + 1
                        /\ ~probe.ret.fallback
               ELSE /\ probe.ret.q = FallbackQuestion
                    /\ probe.ret.fallback
                    /\ Len(d) = 3
                    /\ \A i, j \in 1..3 : d[i] = d[j] => i = j

(***************************************************************************)
(* Category sequencing: SpecCat starts sessions with every order           *)
(* random.sample can return and walks them through all 10 positions.       *)
(***************************************************************************)
\* every result of random.sample(QUESTION_CATEGORIES, 5)
AllSamples ==
    {[i \in 1..Len(QUESTION_CATEGORIES) |-> QUESTION_CATEGORIES[p[i]]] :
        p \in ShuffleOrders(Len(QUESTION_CATEGORIES))}

\* one backend that answers, one whose invocation raises, so that a
\* position can be fetched again, and one whose text does not parse, so that
\* the prompt of a position is built again
CatScripts ==
    { <<DirectText(JsonText(GoodA))>>, <<Raises("transient")>>,
      <<DirectText(GarbageText)>> }

CatOrders == { [i \in 1..n |-> i] : n \in {0, 4} }

NextCat ==
    \/ inflight = EmptyBag /\ Start(AllSamples)
    \/ inflight = EmptyBag /\ Question
    \/ QuestionProceeds(CatScripts, CatOrders)
    \/ inflight = EmptyBag /\ Answer("D")

SpecCat == Init /\ [][NextCat]_vars

CategorySet == {QUESTION_CATEGORIES[i] : i \in 1..Len(QUESTION_CATEGORIES)}

\* how many of the positions fetched so far asked category c
TimesAsked(c) == Cardinality({i \in Asked : prompts[i].category = c})

\* C17: for a caller that keeps to one operation at a time, the category
\* asked at a position never changes once asked (refetching the position asks
\* the same one, and only start forgets it), the order drawn at start stays
\* as drawn until the next start, positions within one block of 5 ask
\* pairwise different categories, and after 10 positions every category was
\* asked exactly twice.
C17_CategoryPasses ==
    /\ [](\A i, j \in Asked :
             (i # j /\ i \div 5 = j \div 5)
                 => prompts[i].category # prompts[j].category)
    /\ [](\A i \in Asked : prompts[i].category \in CategorySet)
    /\ [](Cardinality(Asked) = TOTAL_QUESTIONS =>
             \A c \in CategorySet : TimesAsked(c) = TOTAL_QUESTIONS \div 5)
    /\ [][ response'.route # "start" =>
             /\ categories' = categories
             /\ \A i \in Asked :
                    prompts'[i].category = prompts[i].category ]_vars

C17_Witness ==
    /\ q_index = TOTAL_QUESTIONS
    /\ Cardinality(Asked) = TOTAL_QUESTIONS
    /\ categories # QUESTION_CATEGORIES
    /\ \A c \in CategorySet : TimesAsked(c) = 2

(***************************************************************************)
(* Session invariants, restart and score bound, checked under Spec         *)
(***************************************************************************)
\* C18: in a started session the history has one entry per position passed,
\* 0 <= position <= 10 and 1 <= difficulty <= 10; an accepted answer appends
\* exactly one entry and advances the position by one; question, result and
\* a rejected answer change neither history nor position.
C18_SessionInvariant ==
    /\ [](started =>
             /\ Len(history) = q_index
             /\ 0 <= q_index /\ q_index <= TOTAL_QUESTIONS
             /\ 1 <= difficulty /\ difficulty <= 10)
    /\ [][ IF response'.route = "answer" /\ response'.kind = "feedback"
           THEN /\ Len(history') = Len(history) + 1
                /\ SubSeq(history', 1, Len(history)) = history
                /\ q_index' = q_index + 1
           ELSE response'.route # "start" =>
                    history' = history /\ q_index' = q_index ]_vars

C18_Witness ==
    /\ started
    /\ response.route = "answer" /\ response.kind = "feedback"
    /\ q_index = TOTAL_QUESTIONS
    /\ Len(history) = TOTAL_QUESTIONS
    /\ difficulty = 10

\* C19: start, from whatever state, leaves difficulty 4, position 0, an empty
\* history and no pending question; an answer submitted right after it is
\* turned away and scores nothing.
C19_StartResets ==
    [][ /\ response'.route = "start" =>
             /\ started'
             /\ difficulty' = 4
             /\ q_index' = 0
             /\ history' = <<>>
             /\ current_q' = <<>>
        /\ (response.route = "start" /\ response'.route = "answer") =>
             /\ response'.kind = "redirect"
             /\ history' = <<>>
             /\ q_index' = 0 ]_vars

\* an answer sent right after a start was turned away
C19_Witness ==
    /\ started
    /\ response = Redirect("answer", "question")
    /\ q_index = 0 /\ difficulty = 4
    /\ history = <<>> /\ current_q = <<>>
    /\ Asked = {}

\* C20: every score /result reports is at most 83, the value under the
\* min(100, ...) cap stays below 100 so the cap never binds, and 83 is what
\* 10 correct answers give.
C20_ScoreBound ==
    (response.route = "result" /\ response.kind = "result") =>
        LET uncapped == IntTrunc(AvgLevel10(history) * 8
                                   + CountCorrect(history) * 20, 10)
        IN  /\ response.score <= 83
            /\ uncapped < 100
            /\ response.score = uncapped
            /\ CountCorrect(history) = TOTAL_QUESTIONS => response.score = 83

C20_Witness ==
    /\ response.route = "result" /\ response.kind = "result"
    /\ response.score = 83
    /\ CountCorrect(history) = 10
    /\ response.avg_level = 79

====
